---- MODULE Spec2Model ----
(***************************************************************************)
(* Three programs of the course notebooks as state machines over one set   *)
(* of variables: the k-means routine cluster(data, k) of the clustering    *)
(* notebook (src/unnamed/part_001, lines 441-486), the k-nearest-neighbour *)
(* classifier and its self-test (src/unnamed/part_002), and the text       *)
(* cleaning, vocabulary and sentence encoding of the language notebook     *)
(* (src/Week4/RNN_Exercise.ipynb).  Each specification runs one program    *)
(* and leaves the variables of the others idle.                            *)
(*                                                                         *)
(* Modelling conventions                                                   *)
(*  - data is the numpy array of shape (D, N); here it is the function     *)
(*    n |-> column n, each column a function 0..D-1 -> Int, so that        *)
(*    data[n][j] is the code's data[j, n].  Indices are 0-based as in the  *)
(*    code.                                                                *)
(*  - a float is a record [nan, v]: either NaN or the exact rational       *)
(*    v / Scale, where Scale = N! is divisible by every cluster size, so   *)
(*    every mean the code can form is represented exactly.  Rounding of    *)
(*    IEEE arithmetic is not modelled; NaN and its propagation are.        *)
(*  - all_dist holds the squared distance: numpy.sqrt is monotone and      *)
(*    maps NaN to NaN, so numpy.argmin picks the same index.               *)
(*  - datasets are enumerated up to the order of their points: Seed draws  *)
(*    every index, so a reordered dataset gives the same runs with the     *)
(*    point indices renamed.                                               *)
(***************************************************************************)
EXTENDS Integers, Sequences, FiniteSets, TLC

VARIABLES data, k, sample, pc, err, centroids, prev_centroids, winners, done, plotted,
          drawn, iters, result,
          labels, point, knn_distances, votes, voters, row, score,
          string, twice, all_words, n_words, words, count, idxs, vocab, vocab_d, sentence

vars == <<data, k, sample, pc, err, centroids, prev_centroids, winners, done, plotted,
          drawn, iters, result,
          labels, point, knn_distances, votes, voters, row, score,
          string, twice, all_words, n_words, words, count, idxs, vocab, vocab_d, sentence>>

(* The variables of the k-nearest-neighbour notebook, which cluster leaves alone. *)
knnVars == <<labels, point, knn_distances, votes, voters, row, score>>

KnnIdle ==
    /\ labels = <<>>
    /\ point = <<>>
    /\ knn_distances = <<>>
    /\ votes = <<>>
    /\ voters = <<>>
    /\ row = 0
    /\ score = 0

(* The variables of the text notebook, which the other notebooks leave alone. *)
textVars == <<string, twice, all_words, n_words, words, count, idxs, vocab, vocab_d, sentence>>

TextIdle ==
    /\ string = <<>>
    /\ twice = <<>>
    /\ all_words = <<>>
    /\ n_words = 0
    /\ words = <<>>
    /\ count = <<>>
    /\ idxs = <<>>
    /\ vocab = <<>>
    /\ vocab_d = <<>>
    /\ sentence = <<>>

(* The variables of cluster that the other notebooks leave alone. *)
clusterVars == <<sample, centroids, prev_centroids, winners, done, plotted, drawn, iters>>

ClusterIdle ==
    /\ sample = 0
    /\ centroids = <<>>
    /\ prev_centroids = <<>>
    /\ winners = <<>>
    /\ done = FALSE
    /\ plotted = <<>>
    /\ drawn = <<>>
    /\ iters = 0

(* Bounds of the model. *)
MaxN == 3
MaxCoord == 1
MaxK == 2

(* Passes of the while loop are counted up to MaxIters. *)
MaxIters == 3

(***************************************************************************)
(* Floats.                                                                 *)
(***************************************************************************)
Num(v) == [nan |-> FALSE, v |-> v]

NaN == [nan |-> TRUE, v |-> 0]

FSub(a, b) == IF a.nan \/ b.nan THEN NaN ELSE Num(a.v - b.v)

FAdd(a, b) == IF a.nan \/ b.nan THEN NaN ELSE Num(a.v + b.v)

FSq(a) == IF a.nan THEN NaN ELSE Num(a.v * a.v)

RECURSIVE Fact(_)
Fact(n) == IF n <= 1 THEN 1 ELSE n * Fact(n - 1)

(* Sum of f[0..n] for an integer-valued function f. *)
RECURSIVE SumUpTo(_, _)
SumUpTo(f, n) == IF n < 0 THEN 0 ELSE f[n] + SumUpTo(f, n - 1)

(***************************************************************************)
(* The shape of the data argument.                                         *)
(***************************************************************************)
NPoints(dat) == Cardinality(DOMAIN dat)

Dim(dat) == IF NPoints(dat) = 0 THEN 2 ELSE Cardinality(DOMAIN dat[0])

Scale(dat) == Fact(NPoints(dat))

(* data[:, n] as floats. *)
Column(dat, n) == [j \in DOMAIN dat[n] |-> Num(Scale(dat) * dat[n][j])]

(***************************************************************************)
(* def all_dist(observation, data)                                         *)
(***************************************************************************)
all_dist(observation, dat) ==
    LET scale == Scale(dat)
    IN  [n \in DOMAIN dat |->
            FAdd(FSq(FSub(Num(scale * dat[n][0]), observation[0])),
                 FSq(FSub(Num(scale * dat[n][1]), observation[1])))]

(* Mutant: the index of the largest distance instead of the smallest. *)
argmax(col) ==
    IF \E i \in DOMAIN col : col[i].nan
    THEN CHOOSE i \in DOMAIN col :
             /\ col[i].nan
             /\ \A h \in DOMAIN col : col[h].nan => i <= h
    ELSE CHOOSE i \in DOMAIN col :
             /\ \A h \in DOMAIN col : col[i].v >= col[h].v
             /\ \A h \in DOMAIN col : col[h].v = col[i].v => i <= h

(***************************************************************************)
(* numpy.argmin over one column of distances: the index of the first NaN   *)
(* when there is one, else the lowest index holding the minimum.           *)
(***************************************************************************)
argmin(col) ==
    IF \E i \in DOMAIN col : col[i].nan
    THEN CHOOSE i \in DOMAIN col :
             /\ col[i].nan
             /\ \A h \in DOMAIN col : col[h].nan => i <= h
    ELSE CHOOSE i \in DOMAIN col :
             /\ \A h \in DOMAIN col : col[i].v <= col[h].v
             /\ \A h \in DOMAIN col : col[h].v = col[i].v => i <= h

(* distances[d, :] = all_dist(centroids[d], data) for d in range(k) *)
Distances(cents, dat) == [d \in DOMAIN cents |-> all_dist(cents[d], dat)]

(* Mutant: the minimum taken along the other axis (axis = 1). *)
Winners_axis1(cents, dat) ==
    [d \in DOMAIN cents |-> argmin([n \in DOMAIN dat |-> Distances(cents, dat)[d][n]])]

(* winners = numpy.argmin(distances, axis = 0) *)
Winners(cents, dat) ==
    LET distances == Distances(cents, dat)
    IN  [n \in DOMAIN dat |-> argmin([d \in DOMAIN cents |-> distances[d][n]])]

(* clusters[i] = data[:, winners == i], as the set of column indices kept *)
Members(w, i) == {n \in DOMAIN w : w[n] = i}

(* Mutant: the mean of the whole dataset instead of the cluster's columns. *)
Average_all(dat, w, i) ==
    [j \in 0..(Dim(dat) - 1) |->
        IF NPoints(dat) = 0
        THEN NaN
        ELSE Num((Scale(dat) \div NPoints(dat))
                 * SumUpTo([n \in DOMAIN dat |-> dat[n][j]], NPoints(dat) - 1))]

(* Mutant: the first column of the cluster instead of the mean of its columns. *)
Average_first(dat, w, i) ==
    LET cluster == Members(w, i)
    IN  [j \in 0..(Dim(dat) - 1) |->
            IF cluster = {}
            THEN NaN
            ELSE Num(Scale(dat) * dat[CHOOSE n \in cluster : \A m \in cluster : n <= m][j])]

(***************************************************************************)
(* numpy.average(cluster, axis = 1): the mean of every row over the        *)
(* columns of the cluster, NaN in every row when the cluster has no column.*)
(***************************************************************************)
Average(dat, w, i) ==
    LET cluster == Members(w, i)
    IN  [j \in 0..(Dim(dat) - 1) |->
            IF cluster = {}
            THEN NaN
            ELSE Num((Scale(dat) \div Cardinality(cluster))
                     * SumUpTo([n \in DOMAIN dat |-> IF n \in cluster THEN dat[n][j] ELSE 0],
                               NPoints(dat) - 1))]

(* Mutant: a recomputation that keeps a centroid only for the non-empty clusters. *)
Recomputed_dropEmpty(dat, w, kk) ==
    [i \in {h \in 0..(kk - 1) : Members(w, h) # {}} |-> Average(dat, w, i)]

(* centroids = numpy.array([numpy.average(cluster, axis = 1) for cluster in clusters]) *)
Recomputed(dat, w, kk) == [i \in 0..(kk - 1) |-> Average(dat, w, i)]

(***************************************************************************)
(* numpy.sum(prev_centroids - centroids): the sum of all k*D differences.  *)
(***************************************************************************)
RECURSIVE FSumUpTo(_, _)
FSumUpTo(f, n) == IF n < 0 THEN Num(0) ELSE FAdd(f[n], FSumUpTo(f, n - 1))

SumDiff(prev, cur) ==
    FSumUpTo([i \in DOMAIN cur |->
                 FSumUpTo([j \in DOMAIN cur[i] |-> FSub(prev[i][j], cur[i][j])],
                          Cardinality(DOMAIN cur[i]) - 1)],
             Cardinality(DOMAIN cur) - 1)

(* if numpy.sum(prev_centroids-centroids) == 0 *)
Converged(prev, cur) == ~SumDiff(prev, cur).nan /\ SumDiff(prev, cur).v = 0

(***************************************************************************)
(* Initial states: the arguments of one call and the notebook's global     *)
(* sample, which the notebook sets to the number of columns of data.       *)
(***************************************************************************)
Points(dim, maxc) == [0..(dim - 1) -> 0..maxc]

RECURSIVE Key(_, _, _)
Key(p, j, base) == IF j < 0 THEN 0 ELSE p[j] + base * Key(p, j - 1, base)

Ordered(dat, base) ==
    \A n \in DOMAIN dat : n + 1 \in DOMAIN dat =>
        Key(dat[n], Cardinality(DOMAIN dat[n]) - 1, base)
            <= Key(dat[n + 1], Cardinality(DOMAIN dat[n + 1]) - 1, base)

(* The datasets of at most maxn points drawn from points, one per ordering. *)
Datasets(points, maxn, base) ==
    UNION {{dat \in [0..(n - 1) -> points] : Ordered(dat, base)} : n \in 0..maxn}

(* The value of the call: none before the return, None after it. *)
None == <<>>

NoResult == [returned |-> FALSE, value |-> None]

InitWith(datasets, ks) ==
    /\ data \in datasets
    /\ k \in ks
    /\ sample = NPoints(data)
    /\ pc = "seed"
    /\ err = "none"
    /\ centroids = <<>>
    /\ prev_centroids = <<>>
    /\ winners = <<>>
    /\ done = FALSE
    /\ plotted = <<>>
    /\ drawn = <<>>
    /\ iters = 0
    /\ result = NoResult
    /\ KnnIdle
    /\ TextIdle

Init == InitWith(Datasets(Points(2, MaxCoord), MaxN, MaxCoord + 1), (-1)..MaxK)

(***************************************************************************)
(* The steps of cluster.                                                   *)
(***************************************************************************)
Raise(e) ==
    /\ pc' = "error"
    /\ err' = e
    /\ UNCHANGED <<data, k, sample, centroids, prev_centroids, winners, done, plotted,
                   drawn, iters, result>>

(* Mutant: a seeding that draws nothing, instead of raising, when sample is 0. *)
Seed_skipsEmpty ==
    /\ pc = "seed"
    /\ UNCHANGED knnVars
    /\ UNCHANGED textVars
    /\ IF k <= 0 \/ sample <= 0
       THEN /\ centroids' = <<>>
            /\ pc' = "assign"
            /\ UNCHANGED <<data, k, sample, err, prev_centroids, winners, done, plotted,
                           drawn, iters, result>>
       ELSE \E draw \in [0..(k - 1) -> 0..(sample - 1)] :
               IF \E d \in DOMAIN draw : draw[d] >= NPoints(data)
               THEN Raise("IndexError")
               ELSE /\ centroids' = [d \in 0..(k - 1) |-> Column(data, draw[d])]
                    /\ drawn' = draw
                    /\ pc' = "assign"
                    /\ UNCHANGED <<data, k, sample, err, prev_centroids, winners,
                                   done, plotted, iters, result>>

(* Mutant: a seeding that draws the indices in non-decreasing order. *)
Seed_ordered ==
    /\ pc = "seed"
    /\ UNCHANGED knnVars
    /\ UNCHANGED textVars
    /\ IF k <= 0
       THEN /\ centroids' = <<>>
            /\ pc' = "assign"
            /\ UNCHANGED <<data, k, sample, err, prev_centroids, winners, done, plotted,
                           drawn, iters, result>>
       ELSE IF sample <= 0
       THEN Raise("ValueError")
       ELSE \E draw \in {f \in [0..(k - 1) -> 0..(sample - 1)] :
                             \A d \in 0..(k - 2) : f[d] <= f[d + 1]} :
               IF \E d \in DOMAIN draw : draw[d] >= NPoints(data)
               THEN Raise("IndexError")
               ELSE /\ centroids' = [d \in 0..(k - 1) |-> Column(data, draw[d])]
                    /\ drawn' = draw
                    /\ pc' = "assign"
                    /\ UNCHANGED <<data, k, sample, err, prev_centroids, winners,
                                   done, plotted, iters, result>>

(* centroids = numpy.array([data[:, numpy.random.randint(sample)] for _ in range(k)]) *)
(* done = False                                                                       *)
Seed ==
    /\ pc = "seed"
    /\ UNCHANGED knnVars
    /\ UNCHANGED textVars
    /\ IF k <= 0
       THEN /\ centroids' = <<>>
            /\ pc' = "assign"
            /\ UNCHANGED <<data, k, sample, err, prev_centroids, winners, done, plotted,
                           drawn, iters, result>>
       ELSE IF sample <= 0
       THEN Raise("ValueError")
       ELSE \E draw \in [0..(k - 1) -> 0..(sample - 1)] :
               IF \E d \in DOMAIN draw : draw[d] >= NPoints(data)
               THEN Raise("IndexError")
               ELSE /\ centroids' = [d \in 0..(k - 1) |-> Column(data, draw[d])]
                    /\ drawn' = draw
                    /\ pc' = "assign"
                    /\ UNCHANGED <<data, k, sample, err, prev_centroids, winners,
                                   done, plotted, iters, result>>

(* while not done: distances, winners, clusters *)
Assign ==
    /\ pc = "assign"
    /\ UNCHANGED knnVars
    /\ UNCHANGED textVars
    /\ ~done
    /\ IF k < 0 \/ sample < 0
       THEN Raise("ValueError")
       ELSE IF k = 0
       THEN Raise("ValueError")
       ELSE IF Dim(data) < 2
       THEN Raise("IndexError")
       ELSE IF NPoints(data) # sample /\ NPoints(data) # 1
       THEN Raise("ValueError")
       ELSE IF NPoints(data) # sample
       THEN Raise("IndexError")
       ELSE /\ winners' = Winners(centroids, data)
            /\ pc' = "recompute"
            /\ UNCHANGED <<data, k, sample, err, centroids, prev_centroids, done, plotted,
                           drawn, iters, result>>

(* Mutant: the centroid of an empty cluster is re-seeded from a random point. *)
Recompute_reseed ==
    /\ pc = "recompute"
    /\ UNCHANGED knnVars
    /\ UNCHANGED textVars
    /\ prev_centroids' = centroids
    /\ \E draw \in [0..(k - 1) -> DOMAIN data] :
           centroids' = [i \in 0..(k - 1) |->
                            IF Members(winners, i) = {}
                            THEN Column(data, draw[i])
                            ELSE Average(data, winners, i)]
    /\ iters' = IF iters < MaxIters THEN iters + 1 ELSE iters
    /\ pc' = "check"
    /\ UNCHANGED <<data, k, sample, err, winners, done, plotted, drawn, result>>

(* Mutant: a recomputation that centres the data in place on the first centroid. *)
Recompute_inplace ==
    /\ pc = "recompute"
    /\ UNCHANGED knnVars
    /\ UNCHANGED textVars
    /\ prev_centroids' = centroids
    /\ centroids' = Recomputed(data, winners, k)
    /\ data' = [n \in DOMAIN data |->
                   [j \in DOMAIN data[n] |-> IF n = 0 THEN 0 ELSE data[n][j]]]
    /\ iters' = IF iters < MaxIters THEN iters + 1 ELSE iters
    /\ pc' = "check"
    /\ UNCHANGED <<k, sample, err, winners, done, plotted, drawn, result>>

(* prev_centroids = centroids; centroids = numpy.array([numpy.average(...) ...]) *)
Recompute ==
    /\ pc = "recompute"
    /\ UNCHANGED knnVars
    /\ UNCHANGED textVars
    /\ prev_centroids' = centroids
    /\ centroids' = Recomputed(data, winners, k)
    /\ iters' = IF iters < MaxIters THEN iters + 1 ELSE iters
    /\ pc' = "check"
    /\ UNCHANGED <<data, k, sample, err, winners, done, plotted, drawn, result>>

(* Mutant: the loop is left after its first pass whatever the centroids did. *)
Check_once ==
    /\ pc = "check"
    /\ UNCHANGED knnVars
    /\ UNCHANGED textVars
    /\ done' = TRUE
    /\ pc' = "plot"
    /\ UNCHANGED <<data, k, sample, err, centroids, prev_centroids, winners, plotted,
                   drawn, iters, result>>

(* if numpy.sum(prev_centroids-centroids) == 0: done=True *)
Check ==
    /\ pc = "check"
    /\ UNCHANGED knnVars
    /\ UNCHANGED textVars
    /\ done' = Converged(prev_centroids, centroids)
    /\ pc' = IF done' THEN "plot" ELSE "assign"
    /\ UNCHANGED <<data, k, sample, err, centroids, prev_centroids, winners, plotted,
                   drawn, iters, result>>

(* for cluster, color in zip(clusters, ['go', 'ro', 'bo']): plt.plot(...); plt.show() *)
(* The function ends without a return statement: the call evaluates to None.          *)
NColors == 3

(* Mutant: a cluster that ends with return winners, centroids. *)
Plot_returns ==
    /\ pc = "plot"
    /\ UNCHANGED knnVars
    /\ UNCHANGED textVars
    /\ plotted' = [i \in 0..((IF k < NColors THEN k ELSE NColors) - 1) |-> Members(winners, i)]
    /\ result' = [returned |-> TRUE, value |-> <<winners, centroids>>]
    /\ pc' = "returned"
    /\ UNCHANGED <<data, k, sample, err, centroids, prev_centroids, winners, done,
                   drawn, iters>>

Plot ==
    /\ pc = "plot"
    /\ UNCHANGED knnVars
    /\ UNCHANGED textVars
    /\ plotted' = [i \in 0..((IF k < NColors THEN k ELSE NColors) - 1) |-> Members(winners, i)]
    /\ result' = [returned |-> TRUE, value |-> None]
    /\ pc' = "returned"
    /\ UNCHANGED <<data, k, sample, err, centroids, prev_centroids, winners, done,
                   drawn, iters>>

Next == Seed \/ Assign \/ Recompute \/ Check \/ Plot

Spec == Init /\ [][Next]_vars

(* The interpreter runs the call to its end: a step that can be taken is taken. *)
FairSpec == Spec /\ WF_vars(Next)

(* The same call on a wider grid of points. *)
WideX == 3
WideY == 2
WideN == 3
WideK == 3

InitWide ==
    InitWith(Datasets({p \in Points(2, WideX) : p[1] <= WideY}, WideN, WideX + 1),
             (-1)..WideK)

SpecWide == InitWide /\ [][Next]_vars

(* The same call on data of 1, 2 or 3 rows. *)
MaxDim == 3
DimN == 2

InitDims ==
    InitWith(UNION {Datasets(Points(dim, MaxCoord), DimN, MaxCoord + 1) : dim \in 1..MaxDim},
             (-1)..DimN)

SpecDims == InitDims /\ [][Next]_vars

(***************************************************************************)
(* The same call at any time in the notebook: the global sample holds      *)
(* whatever the last cell that assigned it left there, not necessarily the *)
(* number of columns of the data argument.                                 *)
(***************************************************************************)
MaxSample == 4

InitAmbient ==
    /\ data \in Datasets(Points(2, MaxCoord), MaxN, MaxCoord + 1)
    /\ k \in (-1)..MaxK
    /\ sample \in 0..MaxSample
    /\ pc = "seed"
    /\ err = "none"
    /\ centroids = <<>>
    /\ prev_centroids = <<>>
    /\ winners = <<>>
    /\ done = FALSE
    /\ plotted = <<>>
    /\ drawn = <<>>
    /\ iters = 0
    /\ result = NoResult
    /\ KnnIdle
    /\ TextIdle

SpecAmbient == InitAmbient /\ [][Next]_vars

(* The same call on few points, for the properties that compare whole steps. *)
SmallN == 2

SmallCoord == 1

SmallK == 2

InitSmall == InitWith(Datasets(Points(2, SmallCoord), SmallN, SmallCoord + 1), 0..SmallK)

SpecSmall == InitSmall /\ [][Next]_vars

(* The same call with more clusters than the plot has colours. *)
PlotN == 4

PlotK == 4

InitPlot == InitWith(Datasets(Points(2, MaxCoord), PlotN, MaxCoord + 1), 1..PlotK)

SpecPlot == InitPlot /\ [][Next]_vars

(* The call on the four points (0,0), (0,1), (10,10), (10,11). *)
ScenarioPoints == <<(<<0, 0>>), (<<0, 1>>), (<<10, 10>>), (<<10, 11>>)>>

ScenarioData == [n \in 0..3 |-> [j \in 0..1 |-> ScenarioPoints[n + 1][j + 1]]]

InitScenario == InitWith({ScenarioData}, (-1)..MaxK)

SpecScenario == InitScenario /\ [][Next]_vars

(***************************************************************************)
(* The k-nearest-neighbour notebook (src/unnamed/part_002).                *)
(*                                                                         *)
(* data is the array of entries, data[n][j] the feature j of entry n, and  *)
(* labels[n] the class of entry n; both are views of raw_data (lines       *)
(* 55-56), so the rows of raw_data are the pairs labels[n], data[n].  A    *)
(* feature is the exact rational data[n][j] / Unit.  knn_distances holds   *)
(* the squared distance as a float with denominator Unit * Unit:           *)
(* numpy.sqrt is monotone, so numpy.argmin picks the same index.           *)
(***************************************************************************)
MaxRaw == 2

Unit == Fact(MaxRaw)

(* distances[winner] = 1000 *)
Sentinel == 1000

SentinelDistance == Num((Sentinel * Unit) * (Sentinel * Unit))

(* distance += (dim[0] - dim[1])**2 for dim in zip(point, entry), up to pair j *)
RECURSIVE SquaredDistance(_, _, _)
SquaredDistance(pt, entry, j) ==
    IF j < 0
    THEN 0
    ELSE (pt[j] - entry[j]) * (pt[j] - entry[j]) + SquaredDistance(pt, entry, j - 1)

(* zip stops at the shorter of point and entry *)
ZipLen(pt, entry) ==
    IF Cardinality(DOMAIN pt) < Cardinality(DOMAIN entry)
    THEN Cardinality(DOMAIN pt)
    ELSE Cardinality(DOMAIN entry)

(* Mutant: the distance along the first feature only. *)
all_distances_first(pt, db) ==
    [n \in DOMAIN db |-> Num(SquaredDistance(pt, db[n], 0))]

(* def all_distances(point, db) *)
all_distances(pt, db) ==
    [n \in DOMAIN db |-> Num(SquaredDistance(pt, db[n], ZipLen(pt, db[n]) - 1))]

(* collections.Counter(votes): the number of votes of a label and the place *)
(* of its first vote (a Counter keeps its keys in order of first insertion). *)
CountOf(v, l) == Cardinality({i \in 1..Len(v) : v[i] = l})

FirstVote(v, l) == CHOOSE i \in 1..Len(v) : v[i] = l /\ \A h \in 1..(i - 1) : v[h] # l

(* Mutant: among the labels with the most votes, the one that voted last. *)
most_common_last(v) ==
    CHOOSE l \in {v[i] : i \in 1..Len(v)} :
        \A m \in {v[i] : i \in 1..Len(v)} :
            \/ CountOf(v, l) > CountOf(v, m)
            \/ CountOf(v, l) = CountOf(v, m) /\ FirstVote(v, l) >= FirstVote(v, m)

(* collections.Counter(votes).most_common(1)[0][0]: the first, in order of  *)
(* insertion, of the labels with the largest count.                         *)
most_common(v) ==
    CHOOSE l \in {v[i] : i \in 1..Len(v)} :
        \A m \in {v[i] : i \in 1..Len(v)} :
            \/ CountOf(v, l) > CountOf(v, m)
            \/ CountOf(v, l) = CountOf(v, m) /\ FirstVote(v, l) <= FirstVote(v, m)

(* distances = all_distances(point, data); votes = [] *)
AllDistances ==
    /\ pc = "classify"
    /\ UNCHANGED textVars
    /\ knn_distances' = all_distances(point, data)
    /\ votes' = <<>>
    /\ voters' = <<>>
    /\ pc' = "vote"
    /\ UNCHANGED <<data, k, err, result, labels, point, row, score>>
    /\ UNCHANGED clusterVars

(* Mutant: a vote that removes the winner's distance from the candidates by *)
(* nothing at all (the line distances[winner] = 1000 left out).             *)
Vote_noSentinel ==
    /\ pc = "vote"
    /\ UNCHANGED textVars
    /\ Len(votes) < k
    /\ IF DOMAIN knn_distances = {}
       THEN Raise("ValueError") /\ UNCHANGED knnVars
       ELSE /\ votes' = Append(votes, labels[argmin(knn_distances)])
            /\ voters' = Append(voters, argmin(knn_distances))
            /\ UNCHANGED <<data, k, pc, err, result, labels, point, row, score,
                           knn_distances>>
            /\ UNCHANGED clusterVars

(* for _ in range(k): winner = numpy.argmin(distances);                     *)
(*     votes.append(labels[winner]); distances[winner] = 1000               *)
(* voters records the successive values of winner.                          *)
Vote ==
    /\ pc = "vote"
    /\ UNCHANGED textVars
    /\ Len(votes) < k
    /\ IF DOMAIN knn_distances = {}
       THEN Raise("ValueError") /\ UNCHANGED knnVars
       ELSE /\ votes' = Append(votes, labels[argmin(knn_distances)])
            /\ voters' = Append(voters, argmin(knn_distances))
            /\ knn_distances' =
                   [knn_distances EXCEPT ![argmin(knn_distances)] = SentinelDistance]
            /\ UNCHANGED <<data, k, pc, err, result, labels, point, row, score>>
            /\ UNCHANGED clusterVars

(* return collections.Counter(votes).most_common(1)[0][0] *)
Return ==
    /\ pc = "vote"
    /\ UNCHANGED textVars
    /\ Len(votes) >= k
    /\ IF votes = <<>>
       THEN Raise("IndexError") /\ UNCHANGED knnVars
       ELSE /\ result' = [returned |-> TRUE, value |-> most_common(votes)]
            /\ pc' = "classified"
            /\ UNCHANGED <<data, k, err>>
            /\ UNCHANGED knnVars
            /\ UNCHANGED clusterVars

(* A call classify(point, k) on any entries, labels and point. *)
KnnN == 3

KnnK == 3

KnnPoints ==
    {[j \in 0..1 |-> IF j = 0 THEN x ELSE y] :
        x \in {0, 2 * Sentinel * Unit}, y \in {0, Unit}}

KnnQueries == {[j \in 0..1 |-> 0], [j \in 0..1 |-> IF j = 0 THEN 0 ELSE Unit]}

KnnLabels == {1, 2}

InitClassify ==
    /\ \E n \in 0..KnnN :
          /\ data \in [0..(n - 1) -> KnnPoints]
          /\ labels \in [0..(n - 1) -> KnnLabels]
    /\ point \in KnnQueries
    /\ k \in 0..KnnK
    /\ pc = "classify"
    /\ err = "none"
    /\ result = NoResult
    /\ knn_distances = <<>>
    /\ votes = <<>>
    /\ voters = <<>>
    /\ row = 0
    /\ score = 0
    /\ ClusterIdle
    /\ TextIdle

NextClassify == AllDistances \/ Vote \/ Return

SpecClassify == InitClassify /\ [][NextClassify]_vars

(***************************************************************************)
(* The self-test of the k-NN notebook: the columns of data are normalised  *)
(* in place, then every row of raw_data is classified against data.  The   *)
(* raw features are positive, as the wine measurements are, so that every  *)
(* column has a positive maximum.                                          *)
(***************************************************************************)
SelfN == 2

SelfK == 2

(* numpy.max(data[:, i]) *)
RECURSIVE ColMax(_, _, _)
ColMax(dat, j, n) ==
    IF n = 0
    THEN dat[0][j]
    ELSE IF dat[n][j] > ColMax(dat, j, n - 1) THEN dat[n][j] ELSE ColMax(dat, j, n - 1)

InitSelfTest ==
    /\ \E n \in 1..SelfN :
          /\ data \in [0..(n - 1) -> [0..1 -> 1..MaxRaw]]
          /\ labels \in [0..(n - 1) -> KnnLabels]
    /\ k \in 0..SelfK
    /\ point = <<>>
    /\ pc = "normalize"
    /\ err = "none"
    /\ result = NoResult
    /\ knn_distances = <<>>
    /\ votes = <<>>
    /\ voters = <<>>
    /\ row = 0
    /\ score = 0
    /\ ClusterIdle
    /\ TextIdle

(* for i in range(num_c): data[:, i] = data[:, i] / numpy.max(data[:, i]) *)
Normalize ==
    /\ pc = "normalize"
    /\ UNCHANGED textVars
    /\ data' = [n \in DOMAIN data |->
                   [j \in DOMAIN data[n] |->
                       (data[n][j] * Unit) \div ColMax(data, j, Cardinality(DOMAIN data) - 1)]]
    /\ pc' = "loop"
    /\ UNCHANGED <<k, err, result>>
    /\ UNCHANGED knnVars
    /\ UNCHANGED clusterVars

(* for point in raw_data: ... classify(point[1:], 6): point[1:] is a view of *)
(* the row of raw_data, the memory that data[row] is a view of as well.      *)
NextRow ==
    /\ pc = "loop"
    /\ UNCHANGED textVars
    /\ row < Cardinality(DOMAIN data)
    /\ point' = data[row]
    /\ pc' = "classify"
    /\ UNCHANGED <<data, k, err, result, labels, knn_distances, votes, voters, row, score>>
    /\ UNCHANGED clusterVars

(* if point[0] == classify(point[1:], 6): score += 1 *)
Score ==
    /\ pc = "classified"
    /\ UNCHANGED textVars
    /\ score' = IF labels[row] = result.value THEN score + 1 ELSE score
    /\ row' = row + 1
    /\ pc' = "loop"
    /\ UNCHANGED <<data, k, err, result, labels, point, knn_distances, votes, voters>>
    /\ UNCHANGED clusterVars

(* print('Matched', score, 'of', len(raw_data)) *)
PrintScore ==
    /\ pc = "loop"
    /\ UNCHANGED textVars
    /\ row >= Cardinality(DOMAIN data)
    /\ pc' = "done"
    /\ UNCHANGED <<data, k, err, result>>
    /\ UNCHANGED knnVars
    /\ UNCHANGED clusterVars

NextSelfTest ==
    Normalize \/ NextRow \/ AllDistances \/ Vote \/ Return \/ Score \/ PrintScore

SpecSelfTest == InitSelfTest /\ [][NextSelfTest]_vars

(***************************************************************************)
(* The text notebook (src/Week4/RNN_Exercise.ipynb).  A string is the      *)
(* sequence of the code points (ord) of its characters; numpy arrays and   *)
(* Python lists are functions on 0..len-1, as the code indexes them.       *)
(***************************************************************************)
(* Mutant: the test read as ord(s)>96 and (ord(s)<123 or s == ' '). *)
Keeps_andFirst(c) == c > 96 /\ (c < 123 \/ c = 32)

(* ord(s)>96 and ord(s)<123 or s == ' ' *)
Keeps(c) == (c > 96 /\ c < 123) \/ c = 32

(* def remove_special_symbols(string): ''.join(s for s in string if ...) *)
remove_special_symbols(str) == SelectSeq(str, Keeps)

(* The characters and the strings a call may be given: space, 0, A, `, a, z, {. *)
CleanLen == 3

CleanChars == {32, 48, 65, 96, 97, 122, 123}

StringsOver(chars, maxlen) == UNION {[1..n -> chars] : n \in 0..maxlen}

InitClean ==
    /\ string \in StringsOver(CleanChars, CleanLen)
    /\ pc = "clean"
    /\ err = "none"
    /\ result = NoResult
    /\ data = <<>>
    /\ k = 0
    /\ twice = <<>>
    /\ all_words = <<>>
    /\ n_words = 0
    /\ words = <<>>
    /\ count = <<>>
    /\ idxs = <<>>
    /\ vocab = <<>>
    /\ vocab_d = <<>>
    /\ sentence = <<>>
    /\ KnnIdle
    /\ ClusterIdle

(* remove_special_symbols(string) *)
Clean ==
    /\ pc = "clean"
    /\ result' = [returned |-> TRUE, value |-> remove_special_symbols(string)]
    /\ pc' = "cleaned"
    /\ UNCHANGED <<data, k, err>>
    /\ UNCHANGED textVars
    /\ UNCHANGED knnVars
    /\ UNCHANGED clusterVars

(* remove_special_symbols applied to its own result *)
CleanAgain ==
    /\ pc = "cleaned"
    /\ twice' = remove_special_symbols(result.value)
    /\ pc' = "cleaned twice"
    /\ UNCHANGED <<data, k, err, result>>
    /\ UNCHANGED <<string, all_words, n_words, words, count, idxs, vocab, vocab_d, sentence>>
    /\ UNCHANGED knnVars
    /\ UNCHANGED clusterVars

NextClean == Clean \/ CleanAgain

SpecClean == InitClean /\ [][NextClean]_vars

(***************************************************************************)
(* The vocabulary of the text notebook and the encoding of a sentence.     *)
(* all_words is the list of the words of the cleaned training text, so its *)
(* words are made of lowercase letters; n_words is at least 1.             *)
(***************************************************************************)
MaxWords == 3

MaxVocab == 2

SentenceLen == 3

(* The words a, b and ab; the characters newline, space, a and b. *)
WordPool == {<<97>>, <<98>>, <<97, 98>>}

SentenceChars == {10, 32, 97, 98}

(* '<UNK>' *)
UNK == <<60, 85, 78, 75, 62>>

(* The order of numpy.unique on strings: by code point, a prefix first. *)
RECURSIVE StrLess(_, _)
StrLess(a, b) ==
    IF b = <<>>
    THEN FALSE
    ELSE IF a = <<>>
    THEN TRUE
    ELSE IF Head(a) # Head(b)
    THEN Head(a) < Head(b)
    ELSE StrLess(Tail(a), Tail(b))

Occurrences(list, w) == Cardinality({i \in 1..Len(list) : list[i] = w})

(* arr[-n:] for n >= 0: the last n elements, and all of them when n is 0 *)
(* (-0 is 0) or more than the length.                                    *)
LastN(arr, n) ==
    LET len == Cardinality(DOMAIN arr)
        start == IF n = 0 \/ n >= len THEN 0 ELSE len - n
    IN  [i \in 0..(len - start - 1) |-> arr[start + i]]

(* Mutant: ['<UNK>'] + list(words[idxs]) without the reversal [::-1]. *)
Vocab_notReversed(wds, ix) ==
    [i \in 0..Cardinality(DOMAIN ix) |-> IF i = 0 THEN UNK ELSE wds[ix[i - 1]]]

(* ['<UNK>'] + list(words[idxs][::-1]) *)
Vocab(wds, ix) ==
    [i \in 0..Cardinality(DOMAIN ix) |->
        IF i = 0 THEN UNK ELSE wds[ix[Cardinality(DOMAIN ix) - i]]]

(* Mutant: only the blank separates the tokens, as s.split(' ') would. *)
IsSpace_blank(c) == c = 32

(* The ASCII characters str.split() takes as whitespace. *)
IsSpace(c) == c \in {9, 10, 11, 12, 13, 28, 29, 30, 31, 32}

(* s.split(): the maximal runs of characters that are not whitespace; cur is *)
(* the run being read.                                                       *)
RECURSIVE SplitFrom(_, _)
SplitFrom(str, cur) ==
    IF str = <<>>
    THEN IF cur = <<>> THEN <<>> ELSE <<cur>>
    ELSE IF IsSpace(Head(str))
    THEN (IF cur = <<>> THEN <<>> ELSE <<cur>>) \o SplitFrom(Tail(str), <<>>)
    ELSE SplitFrom(Tail(str), Append(cur, Head(str)))

split(str) == SplitFrom(str, <<>>)

(* [vocab_d[x] if x in vocab_d else 0 for x in s.split()] *)
sentence_to_integer_sequence(str, d) ==
    [t \in 1..Len(split(str)) |->
        IF split(str)[t] \in DOMAIN d THEN d[split(str)[t]] ELSE 0]

InitVocab ==
    /\ all_words \in UNION {[1..n -> WordPool] : n \in 0..MaxWords}
    /\ n_words \in 1..MaxVocab
    /\ pc = "unique"
    /\ err = "none"
    /\ result = NoResult
    /\ data = <<>>
    /\ k = 0
    /\ string = <<>>
    /\ twice = <<>>
    /\ words = <<>>
    /\ count = <<>>
    /\ idxs = <<>>
    /\ vocab = <<>>
    /\ vocab_d = <<>>
    /\ sentence = <<>>
    /\ KnnIdle
    /\ ClusterIdle

(* words, count = np.unique(all_words, return_counts=True) *)
Unique ==
    /\ pc = "unique"
    /\ LET distinct == {all_words[i] : i \in 1..Len(all_words)}
       IN  /\ words' = CHOOSE f \in [0..(Cardinality(distinct) - 1) -> distinct] :
                           \A i \in DOMAIN f : \A j \in DOMAIN f :
                               i < j => StrLess(f[i], f[j])
           /\ count' = [i \in 0..(Cardinality(distinct) - 1) |->
                           Occurrences(all_words, words'[i])]
    /\ pc' = "vocab"
    /\ UNCHANGED <<data, k, err, result>>
    /\ UNCHANGED <<string, twice, all_words, n_words, idxs, vocab, vocab_d, sentence>>
    /\ UNCHANGED knnVars
    /\ UNCHANGED clusterVars

(* idxs = np.argsort(count)[-n_words:]; vocab = ['<UNK>'] + list(words[idxs][::-1]) *)
(* np.argsort (quicksort) puts equal counts in an order that is not specified.       *)
BuildVocab ==
    /\ pc = "vocab"
    /\ \E order \in [DOMAIN count -> DOMAIN count] :
          /\ \A i \in DOMAIN order : \A j \in DOMAIN order : order[i] = order[j] => i = j
          /\ \A i \in DOMAIN order : \A j \in DOMAIN order :
                 i < j => count[order[i]] <= count[order[j]]
          /\ idxs' = LastN(order, n_words)
          /\ vocab' = Vocab(words, idxs')
    /\ pc' = "lookup"
    /\ UNCHANGED <<data, k, err, result>>
    /\ UNCHANGED <<string, twice, all_words, n_words, words, count, vocab_d, sentence>>
    /\ UNCHANGED knnVars
    /\ UNCHANGED clusterVars

(* vocab_d = {vocab[i]: i for i in range(len(vocab))} *)
BuildLookup ==
    /\ pc = "lookup"
    /\ vocab_d' = [w \in {vocab[i] : i \in DOMAIN vocab} |->
                      CHOOSE i \in DOMAIN vocab :
                          vocab[i] = w /\ \A h \in DOMAIN vocab : vocab[h] = w => h <= i]
    /\ pc' = "ready"
    /\ UNCHANGED <<data, k, err, result>>
    /\ UNCHANGED <<string, twice, all_words, n_words, words, count, idxs, vocab, sentence>>
    /\ UNCHANGED knnVars
    /\ UNCHANGED clusterVars

(* sentence_to_integer_sequence(s) *)
Encode ==
    /\ pc = "ready"
    /\ \E str \in StringsOver(SentenceChars, SentenceLen) :
          /\ sentence' = str
          /\ result' = [returned |-> TRUE,
                        value |-> sentence_to_integer_sequence(str, vocab_d)]
    /\ pc' = "encoded"
    /\ UNCHANGED <<data, k, err>>
    /\ UNCHANGED <<string, twice, all_words, n_words, words, count, idxs, vocab, vocab_d>>
    /\ UNCHANGED knnVars
    /\ UNCHANGED clusterVars

NextVocab == Unique \/ BuildVocab \/ BuildLookup \/ Encode

SpecVocab == InitVocab /\ [][NextVocab]_vars

(***************************************************************************)
(* Notions the properties are stated with.                                 *)
(***************************************************************************)
N == NPoints(data)

(* A first assignment has been made. *)
Assigned == winners # <<>>

(* The centroids are the ones recomputed from the current assignment. *)
AfterRecompute == pc \in {"check", "plot", "returned"} \/ (pc = "assign" /\ Assigned)

(* The loop has been left. *)
Exited == pc \in {"plot", "returned"}

IsNaNPoint(c) == \E j \in DOMAIN c : c[j].nan

(* Float comparisons: false as soon as one side is NaN. *)
FEq(a, b) == ~a.nan /\ ~b.nan /\ a.v = b.v

FLe(a, b) == ~a.nan /\ ~b.nan /\ a.v <= b.v

FLt(a, b) == ~a.nan /\ ~b.nan /\ a.v < b.v

(* Squared Euclidean distance between column n and centroid c, over all rows. *)
SqDist(dat, n, c) ==
    FSumUpTo([j \in DOMAIN dat[n] |-> FSq(FSub(Column(dat, n)[j], c[j]))], Dim(dat) - 1)

(* Total within-cluster squared distance of assignment w and centroids cents. *)
Objective(dat, w, cents) ==
    FSumUpTo([n \in DOMAIN dat |-> SqDist(dat, n, cents[w[n]])], NPoints(dat) - 1)

(* Sum of row j over a set of columns. *)
RECURSIVE RowSum(_, _, _)
RowSum(dat, S, j) ==
    IF S = {} THEN 0
    ELSE LET n == CHOOSE x \in S : TRUE IN dat[n][j] + RowSum(dat, S \ {n}, j)

SameCentroids(prev, cur) ==
    /\ DOMAIN prev = DOMAIN cur
    /\ \A i \in DOMAIN cur : \A j \in DOMAIN cur[i] : FEq(prev[i][j], cur[i][j])

ValidArgs == N >= 1 /\ 1 <= k /\ k <= N

(***************************************************************************)
(* C1. Termination: with 1 <= k <= N and any draw of the initial           *)
(* centroids, the assign/recompute loop is eventually left.                *)
(***************************************************************************)
C1_Termination == ValidArgs ~> Exited

(***************************************************************************)
(* C2. Convergence check: for 1 <= k <= N, the loop stops in an iteration  *)
(* if and only if the recomputed centroids are identical, coordinate by    *)
(* coordinate, to the centroids the iteration assigned with.               *)
(***************************************************************************)
C2_StopsIffUnchanged ==
    ValidArgs =>
        /\ Exited => SameCentroids(prev_centroids, centroids)
        /\ (pc = "assign" /\ Assigned) => ~SameCentroids(prev_centroids, centroids)

(***************************************************************************)
(* C3. Total and exclusive assignment: from the first assignment on, every *)
(* point index 0..N-1 has exactly one cluster index, in 0..k-1, and the k  *)
(* clusters partition the dataset.                                         *)
(***************************************************************************)
C3_TotalExclusive ==
    Assigned =>
        /\ DOMAIN winners = 0..(N - 1)
        /\ \A n \in 0..(N - 1) : winners[n] \in 0..(k - 1)
        /\ UNION {Members(winners, i) : i \in 0..(k - 1)} = 0..(N - 1)
        /\ \A i, h \in 0..(k - 1) :
               i # h => Members(winners, i) \cap Members(winners, h) = {}

C3_Witness ==
    /\ pc = "returned"
    /\ k = 2
    /\ N = 3
    /\ \E i, h \in 0..(k - 1) :
           i # h /\ Members(winners, i) # {} /\ Members(winners, h) # {}

(***************************************************************************)
(* C4. Monotonic objective: for 1 <= k <= N, when an iteration is followed *)
(* by another one, the total within-cluster squared distance of the later  *)
(* iteration is at most that of the earlier one.  Stated at the check of   *)
(* the earlier iteration, from which the later one is computed.            *)
(***************************************************************************)
C4_MonotonicObjective ==
    (ValidArgs /\ pc = "check" /\ ~Converged(prev_centroids, centroids)) =>
        FLe(Objective(data, Winners(centroids, data),
                      Recomputed(data, Winners(centroids, data), k)),
            Objective(data, winners, centroids))

(***************************************************************************)
(* C5. Centroid-mean consistency: after every recomputation, and at        *)
(* return, the centroid of every non-empty cluster is the coordinate-wise  *)
(* mean of the points assigned to it.                                      *)
(***************************************************************************)
C5_CentroidIsMean ==
    AfterRecompute =>
        \A i \in 0..(k - 1) :
            Members(winners, i) # {} =>
                \A j \in 0..(Dim(data) - 1) :
                    /\ ~centroids[i][j].nan
                    /\ centroids[i][j].v * Cardinality(Members(winners, i))
                           = Scale(data) * RowSum(data, Members(winners, i), j)

C5_Witness ==
    /\ pc = "returned"
    /\ \E i \in 0..(k - 1) :
           /\ Cardinality(Members(winners, i)) = 2
           /\ \E n, m \in Members(winners, i) : data[n] # data[m]
    /\ \E i \in 0..(k - 1) : Cardinality(Members(winners, i)) = 1

(***************************************************************************)
(* C6. Fixed point at return: for 1 <= k <= N, when the loop is left, no   *)
(* final centroid is strictly closer to a point than the final centroid of *)
(* its own cluster.                                                        *)
(***************************************************************************)
C6_FixedPointAtReturn ==
    (ValidArgs /\ Exited) =>
        \A n \in 0..(N - 1) : \A i \in 0..(k - 1) :
            ~FLt(SqDist(data, n, centroids[i]), SqDist(data, n, centroids[winners[n]]))

(***************************************************************************)
(* C7. Empty-cluster handling: for 1 <= k <= N, after a recomputation      *)
(* every one of the k centroids is a well-defined point, whether or not    *)
(* its cluster is empty.                                                   *)
(***************************************************************************)
C7_CentroidsWellDefined ==
    (ValidArgs /\ AfterRecompute) => \A i \in 0..(k - 1) : ~IsNaNPoint(centroids[i])

(***************************************************************************)
(* C8. Validation of k: with k < 1 or k > N the call fails before the body *)
(* of the loop runs, and returns nothing.                                  *)
(***************************************************************************)
C8_InvalidKRejected ==
    (k < 1 \/ k > N) => (~Assigned /\ pc \in {"seed", "assign", "error"})

C10_NearestOverAllCoordinates ==
    (ValidArgs /\ pc = "recompute") =>
        \A n \in 0..(N - 1) : \A i \in 0..(k - 1) :
            FLe(SqDist(data, n, centroids[winners[n]]), SqDist(data, n, centroids[i]))

(***************************************************************************)
(* C11. Deterministic tie-break: for 1 <= k <= N, in every assignment step *)
(* a point whose minimum distance is attained by two or more centroids is  *)
(* assigned to the one of them with the lowest index.                      *)
(***************************************************************************)
Nearest(n) ==
    {i \in 0..(k - 1) :
        /\ ~SqDist(data, n, centroids[i]).nan
        /\ \A h \in 0..(k - 1) :
               SqDist(data, n, centroids[h]).nan
                   \/ SqDist(data, n, centroids[i]).v <= SqDist(data, n, centroids[h]).v}

C11_TieBreakLowestIndex ==
    (ValidArgs /\ pc = "recompute") =>
        \A n \in 0..(N - 1) :
            Cardinality(Nearest(n)) >= 2 =>
                /\ winners[n] \in Nearest(n)
                /\ \A i \in Nearest(n) : winners[n] <= i

(***************************************************************************)
(* C12. Determinism: once the initial centroids are drawn, every step of   *)
(* the run has a single possible outcome, so two runs on the same data, k  *)
(* and initial centroids pass through the same assignments and centroids   *)
(* and end alike; only the draw of the initial centroids has alternatives. *)
(***************************************************************************)
C12_Deterministic ==
    [][pc # "seed" => \A after \in {vars'} : ~ENABLED (Next /\ vars' # after)]_vars

C12_Witness ==
    /\ pc = "returned"
    /\ k = 1
    /\ N = 2
    /\ iters = 2
    /\ drawn = [d \in 0..0 |-> 1]
    /\ Cardinality(Members(winners, 0)) = 2

C14_KEqualsOne ==
    (N >= 1 /\ k = 1) =>
        /\ AfterRecompute =>
               /\ \A n \in 0..(N - 1) : winners[n] = 0
               /\ \A j \in 0..(Dim(data) - 1) :
                      /\ ~centroids[0][j].nan
                      /\ N * centroids[0][j].v
                             = Scale(data) * SumUpTo([n \in DOMAIN data |-> data[n][j]], N - 1)
        /\ (pc = "check" /\ iters >= 2) => Converged(prev_centroids, centroids)
        /\ Exited => iters <= 2

C14_Witness ==
    /\ pc = "returned"
    /\ k = 1
    /\ N = 3
    /\ iters = 2
    /\ \A n \in 0..(N - 1) : centroids[0] # Column(data, n)

(***************************************************************************)
(* C15: the concrete scenario.  The run on (0,0), (0,1), (10,10), (10,11)  *)
(* with k = 2 that draws (0,0) and (10,10) as initial centroids.           *)
(***************************************************************************)
ScenarioRun ==
    /\ data = ScenarioData
    /\ k = 2
    /\ drawn = [d \in 0..1 |-> IF d = 0 THEN 0 ELSE 2]

ScenarioResult ==
    /\ winners = [n \in 0..3 |-> IF n <= 1 THEN 0 ELSE 1]
    /\ centroids = [i \in 0..1 |->
                       IF i = 0
                       THEN [j \in 0..1 |-> IF j = 0 THEN Num(0) ELSE Num(Scale(data) \div 2)]
                       ELSE [j \in 0..1 |->
                                IF j = 0
                                THEN Num(10 * Scale(data))
                                ELSE Num(10 * Scale(data) + (Scale(data) \div 2))]]

(* C15 as stated: the scenario converges to the two clusters with centroids *)
(* (0, 0.5) and (10, 10.5), and the loop is left after exactly 1 iteration. *)
C15_ScenarioOneIteration ==
    (ScenarioRun /\ Exited) => (ScenarioResult /\ iters = 1)

(* C15 amended: the first iteration produces the two clusters and their     *)
(* centroids (0, 0.5) and (10, 10.5); its convergence test fails (the       *)
(* centroids moved), the second iteration reproduces them and the loop is   *)
(* left after exactly 2 iterations.                                         *)
C15_ScenarioTwoIterations ==
    ScenarioRun =>
        /\ AfterRecompute => ScenarioResult
        /\ (pc = "check" /\ iters = 1) => ~Converged(prev_centroids, centroids)
        /\ (pc = "check" /\ iters = 2) => Converged(prev_centroids, centroids)
        /\ Exited => iters = 2

C15_Witness == ScenarioRun /\ pc = "returned" /\ ScenarioResult

C17_SeedsFromArgument ==
    /\ (ValidArgs /\ pc = "seed") =>
           /\ ~ENABLED (Seed /\ pc' = "error")
           /\ \A d \in 0..(k - 1) : \A n \in 0..(N - 1) :
                  ENABLED (Seed /\ pc' = "assign" /\ drawn'[d] = n)
           /\ k >= 2 => ENABLED (Seed /\ pc' = "assign" /\ drawn'[0] = drawn'[1])
    /\ (ValidArgs /\ pc = "assign" /\ iters = 0) =>
           \A d \in 0..(k - 1) : \E n \in 0..(N - 1) : centroids[d] = Column(data, n)

(***************************************************************************)
(* C19: independence from ambient state.  For valid arguments the call     *)
(* raises nothing and seeds from, measures and assigns the N points of its *)
(* data argument, whatever the global sample holds.                        *)
(***************************************************************************)
C19_IndependentOfSample ==
    ValidArgs =>
        /\ err = "none"
        /\ drawn # <<>> => \A d \in 0..(k - 1) : drawn[d] \in 0..(N - 1)
        /\ Assigned => DOMAIN winners = 0..(N - 1)

(***************************************************************************)
(* C18: two-phase state machine.  For valid arguments the call starts      *)
(* assigning right after the seeding, every assignment is followed by one  *)
(* recomputation with its convergence test, the test is followed by an     *)
(* assignment or by the exit from the loop, and the loop is left only      *)
(* directly after a recomputation that changed no centroid.                *)
(***************************************************************************)
C18_TwoPhase ==
    [][ValidArgs =>
          /\ pc = "seed" => pc' = "assign"
          /\ pc = "assign" => pc' = "recompute" /\ centroids' = centroids
          /\ pc = "recompute" => pc' = "check" /\ winners' = winners
          /\ pc = "check" => pc' \in {"assign", "plot"}
          /\ pc' = "plot" => pc = "check" /\ SameCentroids(prev_centroids, centroids)]_vars

(***************************************************************************)
(* C20: the dataset is left unchanged.  No step of cluster changes the     *)
(* coordinates, the number or the order of the points of data; a step of   *)
(* the loop changes only the assignment, the centroids and the loop's      *)
(* bookkeeping.                                                            *)
(***************************************************************************)
C20_DatasetUnchanged ==
    [][/\ data' = data
       /\ k' = k
       /\ sample' = sample
       /\ pc = "assign" => UNCHANGED <<centroids, prev_centroids>>
       /\ pc = "recompute" => UNCHANGED winners
       /\ pc \in {"check", "plot"} => UNCHANGED <<centroids, prev_centroids, winners>>]_vars

C20_Witness ==
    /\ pc = "returned"
    /\ N = 3
    /\ k = 2
    /\ iters >= 2
    /\ \A i \in 0..(k - 1) : ~IsNaNPoint(centroids[i])
    /\ \E i \in 0..(k - 1) : \A n \in 0..(N - 1) : centroids[i] # Column(data, n)

(***************************************************************************)
(* C21: K is fixed for a run.  No step changes k, and in every state from  *)
(* the seeding to the return there are exactly k centroids, indexed        *)
(* 0..k-1 (the centroid of an empty cluster included), exactly k previous  *)
(* centroids once there are any, and every cluster index is in 0..k-1.     *)
(***************************************************************************)
C21_KFixed ==
    [][/\ k' = k
       /\ pc' \in {"assign", "recompute", "check", "plot", "returned"} =>
              /\ DOMAIN centroids' = 0..(k - 1)
              /\ prev_centroids' # <<>> => DOMAIN prev_centroids' = 0..(k - 1)
              /\ \A n \in DOMAIN winners' : winners'[n] \in 0..(k - 1)]_vars

C21_Witness ==
    /\ pc = "check"
    /\ k = 2
    /\ N = 3
    /\ iters >= 2
    /\ \E i \in 0..(k - 1) : Members(winners, i) = {}
    /\ DOMAIN centroids = 0..1

(***************************************************************************)
(* C22: dependence on initialization.  On the points (0,0), (0,1), (1,0)   *)
(* with k = 2 both orders of drawing (0,1) and (1,0) are possible, both    *)
(* runs go on step by step until they return after two passes, and they    *)
(* return two different partitions: {(0,0),(0,1)} | {(1,0)} when (0,1) is  *)
(* drawn first, {(0,0),(1,0)} | {(0,1)} when (1,0) is drawn first.         *)
(***************************************************************************)
CornerData ==
    [n \in 0..2 |-> [j \in 0..1 |-> IF (n = 1 /\ j = 1) \/ (n = 2 /\ j = 0) THEN 1 ELSE 0]]

CornerRun(first, second) ==
    /\ data = CornerData
    /\ k = 2
    /\ drawn = [d \in 0..1 |-> IF d = 0 THEN first ELSE second]

Partition(w) == {Members(w, i) : i \in 0..(k - 1)} \ {{}}

C22_DependsOnInitialization ==
    /\ (data = CornerData /\ k = 2 /\ pc = "seed") =>
           /\ ENABLED (Seed /\ drawn' = [d \in 0..1 |-> IF d = 0 THEN 1 ELSE 2])
           /\ ENABLED (Seed /\ drawn' = [d \in 0..1 |-> IF d = 0 THEN 2 ELSE 1])
    /\ (CornerRun(1, 2) \/ CornerRun(2, 1)) =>
           /\ pc # "error"
           /\ pc # "returned" => ENABLED Next
           /\ iters <= 2
           /\ (pc = "check" /\ iters = 2) => Converged(prev_centroids, centroids)
    /\ (CornerRun(1, 2) /\ Exited) => Partition(winners) = {{0, 1}, {2}}
    /\ (CornerRun(2, 1) /\ Exited) => Partition(winners) = {{0, 2}, {1}}

C22_Witness ==
    /\ CornerRun(2, 1)
    /\ pc = "returned"
    /\ Partition(winners) = {{0, 2}, {1}}
    /\ Partition(winners) # {{0, 1}, {2}}

(***************************************************************************)
(* C23: rendering of the result.  For valid arguments, whatever k, when    *)
(* the call has returned every point has been plotted exactly once, in the *)
(* group of the cluster it is assigned to, and every non-empty cluster has *)
(* been plotted.                                                           *)
(***************************************************************************)
C23_EveryPointPlotted ==
    (ValidArgs /\ pc = "returned") =>
        /\ \A n \in 0..(N - 1) :
               /\ Cardinality({i \in DOMAIN plotted : n \in plotted[i]}) = 1
               /\ winners[n] \in DOMAIN plotted
               /\ n \in plotted[winners[n]]
        /\ \A i \in 0..(k - 1) : Members(winners, i) # {} => i \in DOMAIN plotted

(***************************************************************************)
(* C24: neighbour selection of classify.  When k is at most the number of  *)
(* entries and every Euclidean distance from the point is below the        *)
(* sentinel, the i-th vote comes from the entry that has exactly i - 1     *)
(* entries before it in the order of distance, then index: the voters are  *)
(* pairwise distinct and are the k nearest entries.                        *)
(***************************************************************************)
Euclid2(n) ==
    (point[0] - data[n][0]) * (point[0] - data[n][0])
        + (point[1] - data[n][1]) * (point[1] - data[n][1])

Before(m, n) == Euclid2(m) < Euclid2(n) \/ (Euclid2(m) = Euclid2(n) /\ m < n)

BelowSentinel ==
    \A n \in DOMAIN data : Euclid2(n) < (Sentinel * Unit) * (Sentinel * Unit)

C24_KNearestVote ==
    (pc \in {"vote", "classified"} /\ k <= Cardinality(DOMAIN data) /\ BelowSentinel) =>
        /\ Len(voters) = Len(votes)
        /\ pc = "classified" => Len(voters) = k
        /\ \A i \in 1..Len(voters) :
              /\ voters[i] \in DOMAIN data
              /\ votes[i] = labels[voters[i]]
              /\ Cardinality({m \in DOMAIN data : Before(m, voters[i])}) = i - 1
        /\ \A i \in 1..Len(voters) : \A h \in 1..Len(voters) :
              voters[i] = voters[h] => i = h

C24_Witness ==
    /\ pc = "classified"
    /\ k = 2
    /\ Cardinality(DOMAIN data) = 3
    /\ BelowSentinel
    /\ Euclid2(0) > Euclid2(1)
    /\ Euclid2(1) = Euclid2(2)
    /\ voters = <<1, 2>>

(***************************************************************************)
(* C25: vote result of classify.  The returned label has the largest       *)
(* number of votes, and among the labels with that number it is the one    *)
(* whose first vote was cast earliest.                                     *)
(***************************************************************************)
C25_MajorityEarliestFirst ==
    pc = "classified" =>
        /\ result.returned
        /\ \E i \in 1..Len(votes) : votes[i] = result.value
        /\ \A i \in 1..Len(votes) :
              LET mine == Cardinality({h \in 1..Len(votes) : votes[h] = result.value})
                  other == Cardinality({h \in 1..Len(votes) : votes[h] = votes[i]})
              IN  /\ other <= mine
                  /\ (other = mine /\ votes[i] # result.value) =>
                         \E h \in 1..(i - 1) : votes[h] = result.value

C25_Witness ==
    /\ pc = "classified"
    /\ votes = <<2, 1>>
    /\ result.value = 2

(***************************************************************************)
(* C26: self-match in the self-test.  With k >= 1, while a row is being    *)
(* classified the query is that row of the dataset, at distance zero, and  *)
(* when the call has returned the row is among the voters as long as fewer *)
(* than k other entries have the same coordinates.                         *)
(***************************************************************************)
SameAsRow == {m \in DOMAIN data : m # row /\ data[m] = data[row]}

C26_SelfMatch ==
    (k >= 1 /\ pc \in {"classify", "vote", "classified"}) =>
        /\ row \in DOMAIN data
        /\ point = data[row]
        /\ (pc = "vote" /\ votes = <<>>) => knn_distances[row] = Num(0)
        /\ (pc = "classified" /\ Cardinality(SameAsRow) < k) =>
               \E i \in 1..Len(voters) : voters[i] = row

C26_Witness ==
    /\ pc = "classified"
    /\ k = 2
    /\ row = 1
    /\ Cardinality(DOMAIN data) = 2
    /\ data[0] = data[1]
    /\ voters = <<0, 1>>

(***************************************************************************)
(* C29: remove_special_symbols returns the subsequence of the characters   *)
(* of its input that are lowercase letters a-z or the space, in their      *)
(* order, and applying it to its own result changes nothing.               *)
(***************************************************************************)
RECURSIVE LettersAndSpaces(_)
LettersAndSpaces(str) ==
    IF str = <<>>
    THEN <<>>
    ELSE (IF Head(str) \in (97..122) \cup {32} THEN <<Head(str)>> ELSE <<>>)
             \o LettersAndSpaces(Tail(str))

C29_KeepsLettersAndSpaces ==
    /\ pc \in {"cleaned", "cleaned twice"} =>
          /\ result.value = LettersAndSpaces(string)
          /\ \A i \in 1..Len(result.value) : result.value[i] \in (97..122) \cup {32}
    /\ pc = "cleaned twice" => twice = result.value

C29_Witness ==
    /\ pc = "cleaned twice"
    /\ string = <<65, 32, 122>>
    /\ result.value = <<32, 122>>
    /\ twice = <<32, 122>>

(***************************************************************************)
(* C28: vocab has <UNK> at position 0 followed by at most n_words distinct *)
(* words of the training text in order of non-increasing occurrence count  *)
(* (position 1 is a most frequent word), no word left out of vocab occurs  *)
(* more often than a word in it, and vocab_d maps each vocab entry to its  *)
(* own position.                                                           *)
(***************************************************************************)
TrainingWords == {all_words[i] : i \in 1..Len(all_words)}

Listed == {vocab[i] : i \in DOMAIN vocab \ {0}}

C28_VocabularyByFrequency ==
    /\ pc \in {"lookup", "ready", "encoded"} =>
          LET len == Cardinality(DOMAIN vocab)
          IN  /\ DOMAIN vocab = 0..(len - 1)
              /\ vocab[0] = UNK
              /\ len - 1 <= n_words
              /\ Listed \subseteq TrainingWords
              /\ \A i \in 1..(len - 1) : \A j \in 1..(len - 1) :
                     i # j => vocab[i] # vocab[j]
              /\ \A i \in 1..(len - 1) : \A j \in 1..(len - 1) :
                     i < j => Occurrences(all_words, vocab[i])
                                  >= Occurrences(all_words, vocab[j])
              /\ len > 1 => \A w \in TrainingWords :
                     Occurrences(all_words, w) <= Occurrences(all_words, vocab[1])
              /\ \A w \in TrainingWords \ Listed : \A v \in Listed :
                     Occurrences(all_words, w) <= Occurrences(all_words, v)
    /\ pc \in {"ready", "encoded"} =>
          \A i \in DOMAIN vocab :
              vocab[i] \in DOMAIN vocab_d /\ vocab_d[vocab[i]] = i

C28_Witness ==
    /\ pc = "ready"
    /\ all_words = <<(<<97>>), (<<98>>), (<<98>>)>>
    /\ n_words = 1
    /\ Cardinality(DOMAIN vocab) = 2
    /\ vocab[1] = <<98>>
    /\ vocab_d[<<98>>] = 1

(***************************************************************************)
(* C27: sentence_to_integer_sequence returns one integer per token of the  *)
(* sentence (maximal run of characters that are not whitespace), in token  *)
(* order: the position in vocab of a token that is in vocab, 0 for every   *)
(* other token; every value lies in 0..len(vocab)-1.                       *)
(***************************************************************************)
Whitespace == (9..13) \cup (28..32)

TokenStarts(str) ==
    {i \in 1..Len(str) :
        str[i] \notin Whitespace /\ (i = 1 \/ str[i - 1] \in Whitespace)}

TokenAt(str, i) ==
    SubSeq(str, i, CHOOSE j \in i..Len(str) :
                       /\ \A h \in i..j : str[h] \notin Whitespace
                       /\ j = Len(str) \/ str[j + 1] \in Whitespace)

TokenNumber(str, i) == Cardinality({j \in TokenStarts(str) : j <= i})

C27_OneIntegerPerToken ==
    pc = "encoded" =>
        /\ Len(result.value) = Cardinality(TokenStarts(sentence))
        /\ \A i \in TokenStarts(sentence) :
              LET tok == TokenAt(sentence, i)
                  out == result.value[TokenNumber(sentence, i)]
              IN  /\ out \in 0..(Cardinality(DOMAIN vocab) - 1)
                  /\ tok \in {vocab[p] : p \in DOMAIN vocab} => vocab[out] = tok
                  /\ tok \notin {vocab[p] : p \in DOMAIN vocab} => out = 0

C27_Witness ==
    /\ pc = "encoded"
    /\ sentence = <<97, 10, 98>>
    /\ Cardinality(DOMAIN vocab) = 2
    /\ vocab[1] = <<97>>
    /\ result.value = <<1, 0>>

====
